---------------------------- MODULE Spec2Model ----------------------------
(***************************************************************************)
(* A model of http-errors (src/index.js): the factory createError, the    *)
(* concrete error classes built by populateConstructorExports, and the    *)
(* predicate isHttpError.                                                  *)
(*                                                                         *)
(* A caller builds at most one error object of its own (held), calls the   *)
(* factory or the predicate, may pass the factory's result back to the     *)
(* factory once, and lets everything go.                                   *)
(***************************************************************************)
EXTENDS Integers, Sequences, FiniteSets

(***************************************************************************)
(* JavaScript values.  A primitive is a record: t is what typeof gives, n  *)
(* the number (or the boolean as 0/1), s the string.  NaN is a number      *)
(* whose s is "NaN".                                                       *)
(***************************************************************************)
Num(n)    == [t |-> "number",    n |-> n, s |-> ""]
NaN       == [t |-> "number",    n |-> 0, s |-> "NaN"]
Str(s)    == [t |-> "string",    n |-> 0, s |-> s]
Bool(b)   == [t |-> "boolean",   n |-> IF b THEN 1 ELSE 0, s |-> ""]
Undefined == [t |-> "undefined", n |-> 0, s |-> ""]
Null      == [t |-> "object",    n |-> 0, s |-> "null"]
Func      == [t |-> "function",  n |-> 0, s |-> ""]

IsNaN(v)    == v.t = "number" /\ v.s = "NaN"
IsNumber(v) == v.t = "number"

\* ToBoolean: what `!v`, `a || b` and `if (v)` test.
Truthy(v) ==
  CASE v.t = "number"    -> ~IsNaN(v) /\ v.n # 0
    [] v.t = "string"    -> v.s # ""
    [] v.t = "boolean"   -> v.n = 1
    [] v.t = "undefined" -> FALSE
    [] v.t = "object"    -> FALSE      \* the only primitive of type object is null
    [] OTHER             -> TRUE

\* a || b
OrElse(a, b) == IF Truthy(a) THEN a ELSE b

\* a === b on primitives: NaN is not equal to itself.
StrictEq(a, b) == a = b /\ ~IsNaN(a)

\* a < k, a >= k for a number a and a finite k: false when a is NaN.
Less(a, k)    == ~IsNaN(a) /\ a.n < k
AtLeast(a, k) == ~IsNaN(a) /\ a.n >= k

(***************************************************************************)
(* The status registry (the module statuses): the codes the model keeps   *)
(* and their reason phrases.                                               *)
(***************************************************************************)
StatusCodes == {200, 400, 404, 500}

StatusPhrase(code) ==
  CASE code = 200 -> "OK"
    [] code = 400 -> "Bad Request"
    [] code = 404 -> "Not Found"
    [] code = 500 -> "Internal Server Error"

\* statuses.message[status] for a number status: undefined when unregistered.
StatusMessage(status) ==
  IF ~IsNaN(status) /\ status.n \in StatusCodes
    THEN Str(StatusPhrase(status.n))
    ELSE Undefined

(***************************************************************************)
(* Objects.  base is the chain the object's prototype is on: "Error" for a *)
(* plain Error, "HttpError" for an instance of a concrete class, whose     *)
(* code is klass.  The other fields are own properties; an absent one      *)
(* reads undefined.                                                        *)
(***************************************************************************)
NoClass == [kind |-> "none", code |-> 0]

NewObject(base, klass, message) ==
  [base |-> base, klass |-> klass, status |-> Undefined,
   statusCode |-> Undefined, expose |-> Undefined, message |-> message,
   code |-> Undefined]

NoObject == NewObject("none", NoClass, Undefined)

\* new Error(message): an undefined message leaves the inherited "".
NewError(message) ==
  NewObject("Error", NoClass,
            IF message = Undefined THEN Str("") ELSE message)

\* codeClass: the first character of String(status), followed by "00".
RECURSIVE LeadingDigit(_)
LeadingDigit(n) == IF n < 10 THEN n ELSE LeadingDigit(n \div 10)

codeClass(status) ==
  IF IsNaN(status) THEN NaN ELSE Num(LeadingDigit(status.n) * 100)

\* class HttpError: the constructor's assignments, under a concrete class.
HttpError(klass, status, message) ==
  [NewObject("HttpError", klass, message) EXCEPT
     !.status = status, !.statusCode = status]

\* new ClientError(message) of createClientErrorConstructor(name, code)
createClientErrorConstructor(klass, message) ==
  LET msg == IF message # Null /\ message # Undefined
               THEN message ELSE StatusMessage(Num(klass.code))
  IN  [HttpError(klass, Num(klass.code), msg) EXCEPT !.expose = Bool(TRUE)]

\* A server class that sets expose as a client class does.
createServerErrorConstructorExposed(klass, message) ==
  LET msg == IF message # Null /\ message # Undefined
               THEN message ELSE StatusMessage(Num(klass.code))
  IN  [HttpError(klass, Num(klass.code), msg) EXCEPT !.expose = Bool(TRUE)]

\* new ServerError(message) of createServerErrorConstructor(name, code)
createServerErrorConstructor(klass, message) ==
  LET msg == IF message # Null /\ message # Undefined
               THEN message ELSE StatusMessage(Num(klass.code))
  IN  [HttpError(klass, Num(klass.code), msg) EXCEPT !.expose = Bool(FALSE)]

\* populateConstructorExports: the class exported under a code, if any.
populateConstructorExports(code) ==
  CASE codeClass(Num(code)) = Num(400) -> [kind |-> "client", code |-> code]
    [] codeClass(Num(code)) = Num(500) -> [kind |-> "server", code |-> code]
    [] OTHER                           -> NoClass

\* createError[status]: the exports table read under a number.
Exported(status) ==
  IF ~IsNaN(status) /\ status.n \in StatusCodes
    THEN populateConstructorExports(status.n)
    ELSE NoClass

\* new klass(message)
Construct(klass, message) ==
  IF klass.kind = "client"
    THEN createClientErrorConstructor(klass, message)
    ELSE createServerErrorConstructor(klass, message)

\* obj instanceof klass
InstanceOf(obj, klass) == obj.base = "HttpError" /\ obj.klass = klass

(***************************************************************************)
(* Arguments.  An argument is a primitive, an Error object or a plain      *)
(* object (a property bag: a function from its enumerable keys).  ref      *)
(* tells which object an Error argument is: the caller's own ("held"), one *)
(* built in the argument list ("inline"), or the factory's previous        *)
(* result ("result").                                                      *)
(***************************************************************************)
EmptyBag == [k \in {} |-> Undefined]

PrimArg(v) ==
  [kind |-> "prim", prim |-> v, ref |-> "", obj |-> NoObject, bag |-> EmptyBag]
BagArg(b) ==
  [kind |-> "bag", prim |-> Undefined, ref |-> "", obj |-> NoObject, bag |-> b]
ErrorArg(ref, obj) ==
  [kind |-> "error", prim |-> Undefined, ref |-> ref, obj |-> obj,
   bag |-> EmptyBag]

\* typeof arg
TypeOf(arg) == IF arg.kind = "prim" THEN arg.prim.t ELSE "object"

\* arg instanceof Error
IsError(arg) == arg.kind = "error"

\* What a call leaves behind.  kind is "return", "throw" or "bool" (the
\* predicate's answer, in bool); pos and type are the thrown TypeError's
\* argument number and type; src is the index of the argument that was
\* returned (0: a new object); scanned is the status after the argument
\* scan, status the status after validation.
NoReturn ==
  [kind |-> "none", pos |-> 0, type |-> "", src |-> 0, obj |-> NoObject,
   scanned |-> Undefined, status |-> Undefined, deprecated |-> FALSE,
   bool |-> FALSE]

\* A number taken as the status at any place.
NumericStatusAnywhere(type, i) == type = "number"

\* A number is the status only as the first argument.
NumericStatusPlace(type, i) == type = "number" /\ i = 0

\* The TypeError naming the 0-based index.
ArgumentIndex(i) == i

\* The argument number the TypeError names, for the 0-based index i.
ArgumentNumber(i) == i + 1

\* The argument scan of createError, from index i (0-based) on.  st holds
\* err (the 1-based place of the argument err is, 0 when unset), msg,
\* status, props, and whether a TypeError was thrown, with the argument
\* number (pos) and the type it names.
RECURSIVE ScanArguments(_, _, _)
ScanArguments(arguments, i, st) ==
  IF i >= Len(arguments) THEN st
  ELSE
    LET arg  == arguments[i + 1]
        type == TypeOf(arg)
    IN  IF type = "object" /\ IsError(arg)
          THEN ScanArguments(arguments, i + 1,
                 [st EXCEPT !.err = i + 1,
                            !.status = OrElse(arg.obj.status,
                                         OrElse(arg.obj.statusCode, @))])
        ELSE IF NumericStatusPlace(type, i)
          THEN ScanArguments(arguments, i + 1, [st EXCEPT !.status = arg.prim])
        ELSE IF type = "string"
          THEN ScanArguments(arguments, i + 1, [st EXCEPT !.msg = arg.prim])
        ELSE IF type = "object"
          THEN ScanArguments(arguments, i + 1, [st EXCEPT !.props = arg.bag])
        ELSE [st EXCEPT !.thrown = TRUE, !.pos = ArgumentNumber(i),
                        !.type = type]

ScanStart ==
  [err |-> 0, msg |-> Undefined, status |-> Num(500), props |-> EmptyBag,
   thrown |-> FALSE, pos |-> 0, type |-> ""]

\* typeof status === 'number' && (status < 400 || status >= 600)
NonErrorStatus(status) ==
  IsNumber(status) /\ (Less(status, 400) \/ AtLeast(status, 600))

\* A validation that keeps every number.
ValidStatusAnyNumber(status) ==
  IF ~IsNumber(status) THEN Num(500) ELSE status

\* A validation that resets every number without a reason phrase.
ValidStatusRegisteredOnly(status) ==
  IF ~IsNumber(status) \/ ~Truthy(StatusMessage(status))
    THEN Num(500)
    ELSE status

\* The status after validation.
ValidStatus(status) ==
  IF ~IsNumber(status)
     \/ (~Truthy(StatusMessage(status))
         /\ (Less(status, 400) \/ AtLeast(status, 600)))
    THEN Num(500)
    ELSE status

\* createError[status] || createError[codeClass(status)]
ResolveConstructor(status) ==
  IF Exported(status) # NoClass
    THEN Exported(status)
    ELSE Exported(codeClass(status))

\* A property loop that copies every key.
ReservedKeyNone(key) == FALSE

\* The keys the property loop does not copy.
ReservedKey(key) == key = "status" \/ key = "statusCode"

\* err[key] after the property loop
MergeKey(err, props, key) ==
  IF key \in DOMAIN props /\ ~ReservedKey(key) THEN props[key] ELSE err[key]

MergeProps(err, props) ==
  [base       |-> err.base,
   klass      |-> err.klass,
   status     |-> MergeKey(err, props, "status"),
   statusCode |-> MergeKey(err, props, "statusCode"),
   expose     |-> MergeKey(err, props, "expose"),
   message    |-> MergeKey(err, props, "message"),
   code       |-> MergeKey(err, props, "code")]

\* The generic path's guard: the error is not what the resolved class makes.
NeedsProperties(err, klass, status) ==
  klass = NoClass \/ ~InstanceOf(err, klass) \/ ~StrictEq(err.status, status)

\* expose and both status fields forced onto the error
AddProperties(err, status) ==
  [err EXCEPT !.expose = Bool(Less(status, 500)),
              !.status = status, !.statusCode = status]

\* createError after the argument scan st found nothing to throw
BuildError(arguments, st, status, klass) ==
  LET made == IF st.err # 0 THEN arguments[st.err].obj
              ELSE IF klass # NoClass THEN Construct(klass, st.msg)
              ELSE NewError(OrElse(st.msg, StatusMessage(status)))
      err  == IF NeedsProperties(made, klass, status)
                THEN AddProperties(made, status)
                ELSE made
  IN  [NoReturn EXCEPT !.kind = "return", !.src = st.err,
                       !.obj = MergeProps(err, st.props),
                       !.scanned = st.status, !.status = status,
                       !.deprecated = NonErrorStatus(st.status)]

Scanned(arguments, st) ==
  IF st.thrown
    THEN [NoReturn EXCEPT !.kind = "throw", !.pos = st.pos,
                          !.type = st.type]
    ELSE BuildError(arguments, st, ValidStatus(st.status),
                    ResolveConstructor(ValidStatus(st.status)))

createError(arguments) ==
  Scanned(arguments, ScanArguments(arguments, 0, ScanStart))

\* val[key] for an object val: an absent property reads undefined.
Get(val, key) ==
  IF val.kind = "bag"
    THEN IF key \in DOMAIN val.bag THEN val.bag[key] ELSE Undefined
    ELSE val.obj[key]

\* A predicate that takes the three fields from any object.
isHttpErrorAnyObject(val) ==
  IF (val.kind = "prim" /\ ~Truthy(val.prim)) \/ TypeOf(val) # "object"
    THEN FALSE
  ELSE IF val.kind = "error" /\ val.obj.base = "HttpError"
    THEN TRUE
  ELSE /\ Get(val, "expose").t = "boolean"
       /\ Get(val, "statusCode").t = "number"
       /\ StrictEq(Get(val, "status"), Get(val, "statusCode"))

\* isHttpError(val)
isHttpError(val) ==
  IF (val.kind = "prim" /\ ~Truthy(val.prim)) \/ TypeOf(val) # "object"
    THEN FALSE
  ELSE IF val.kind = "error" /\ val.obj.base = "HttpError"
    THEN TRUE
  ELSE /\ IsError(val)
       /\ Get(val, "expose").t = "boolean"
       /\ Get(val, "statusCode").t = "number"
       /\ StrictEq(Get(val, "status"), Get(val, "statusCode"))

(***************************************************************************)
(* The inputs the caller draws from.                                       *)
(***************************************************************************)
\* The most arguments a call passes.
MaxArgs == 3

\* Numbers passed first: registered inside and outside [400,599],
\* unregistered inside and outside, and NaN.
FirstNumbers == {Num(200), Num(399), Num(404), Num(499), Num(500), Num(700), NaN}

Messages == {Str("boom")}

\* Property bags: reserved keys with another key, and an expose of its own.
Bags ==
  {[status |-> Num(403), statusCode |-> Num(403), code |-> Str("X")],
   [expose |-> Bool(FALSE)]}

\* Arguments of a type the factory does not take at any place.
Unsupported == {Undefined, Bool(TRUE), Func}

\* An Error built in the argument list: new createError[500]()
InlineError == ErrorArg("inline", Construct(Exported(Num(500)), Undefined))

\* The caller's own error, put in when the call is made.
HeldError == ErrorArg("held", NoObject)

AnyArgs ==
  {PrimArg(v) : v \in Messages \cup Unsupported \cup {Null, Num(404)}}
    \cup {BagArg(b) : b \in Bags} \cup {InlineError, HeldError}

FirstArgs == AnyArgs \cup {PrimArg(v) : v \in FirstNumbers}

ArgLists ==
  {<<>>} \cup
  UNION {{s \in [1..n -> FirstArgs] : \A i \in 2..n : s[i] \in AnyArgs}
           : n \in 1..MaxArgs}

\* What the caller assigns to status and statusCode of its own error.
AssignedValues == {Num(404), Str("x")}

\* The codes whose class the caller constructs directly.
ClassCodes == {c \in StatusCodes : Exported(Num(c)) # NoClass}

\* Values handed to isHttpError beside the caller's own error.
HandBuilt ==
  [expose |-> Bool(TRUE), status |-> Num(404), statusCode |-> Num(404)]

TestValues ==
  {PrimArg(Null), PrimArg(Undefined), PrimArg(Str("x")), PrimArg(Num(404)),
   BagArg(EmptyBag), BagArg(HandBuilt),
   ErrorArg("inline", [NewError(Str("boom")) EXCEPT
                         !.expose = HandBuilt.expose,
                         !.status = HandBuilt.status,
                         !.statusCode = HandBuilt.statusCode]),
   InlineError, HeldError}

(***************************************************************************)
(* The state: where the caller is (pc), its own error object (held,        *)
(* NoObject when it has none), the arguments of the call it made (args,    *)
(* with the held error as it was when passed), what the call left (ret),   *)
(* and what passing the result back to createError left (again).           *)
(***************************************************************************)
VARIABLES pc, held, args, ret, again

vars == <<pc, held, args, ret, again>>

Init ==
  /\ pc = "idle"
  /\ held = NoObject
  /\ args = <<>>
  /\ ret = NoReturn
  /\ again = NoReturn

\* The argument as the callee sees it.
Passed(arg) == IF arg.ref = "held" THEN [arg EXCEPT !.obj = held] ELSE arg

\* The call returned the caller's own object.
ReturnedHeld(r, arguments) ==
  r.kind = "return" /\ r.src # 0 /\ arguments[r.src].ref = "held"

\* held = new Error(message)
MakeError ==
  /\ pc = "idle"
  /\ held = NoObject
  /\ \E message \in Messages : held' = NewError(message)
  /\ UNCHANGED <<pc, args, ret, again>>

\* held = new createError[code](message)
MakeHttpError ==
  /\ pc = "idle"
  /\ held = NoObject
  /\ \E code \in ClassCodes, message \in Messages \cup {Undefined, Null} :
       held' = Construct(Exported(Num(code)), message)
  /\ UNCHANGED <<pc, args, ret, again>>

\* held.status = value, held.statusCode = value
Assign ==
  /\ pc = "idle"
  /\ held # NoObject
  /\ \E key \in {"status", "statusCode"}, value \in AssignedValues :
       held' = [held EXCEPT ![key] = value]
  /\ UNCHANGED <<pc, args, ret, again>>

\* createError(...arguments)
CallCreateError ==
  /\ pc = "idle"
  /\ \E arguments \in ArgLists :
       /\ \A i \in 1..Len(arguments) :
            arguments[i].ref = "held" => held # NoObject
       /\ args' = [i \in 1..Len(arguments) |-> Passed(arguments[i])]
  /\ ret' = createError(args')
  /\ held' = IF ReturnedHeld(ret', args') THEN ret'.obj ELSE held
  /\ pc' = "returned"
  /\ UNCHANGED again

\* createError(e), e the error the last call returned
CallAgain ==
  /\ pc = "returned"
  /\ ret.kind = "return"
  /\ again' = createError(<<ErrorArg("result", ret.obj)>>)
  /\ held' = IF ReturnedHeld(ret, args) THEN again'.obj ELSE held
  /\ pc' = "reapplied"
  /\ UNCHANGED <<args, ret>>

\* isHttpError(val)
CallIsHttpError ==
  /\ pc = "idle"
  /\ \E val \in TestValues :
       /\ val.ref = "held" => held # NoObject
       /\ args' = <<Passed(val)>>
  /\ ret' = [NoReturn EXCEPT !.kind = "bool", !.bool = isHttpError(args'[1])]
  /\ pc' = "returned"
  /\ UNCHANGED <<held, again>>

\* The caller is done with the call and its objects.
Release ==
  /\ pc \in {"returned", "reapplied"}
  /\ pc' = "idle"
  /\ held' = NoObject
  /\ args' = <<>>
  /\ ret' = NoReturn
  /\ again' = NoReturn

Next ==
  \/ MakeError
  \/ MakeHttpError
  \/ Assign
  \/ CallCreateError
  \/ CallAgain
  \/ CallIsHttpError
  \/ Release

Spec == Init /\ [][Next]_vars

(***************************************************************************)
(* The properties.                                                         *)
(***************************************************************************)
\* The last call was createError(...args).
CreateErrorCalled == pc # "idle" /\ ret.kind \in {"return", "throw"}

\* The last call was createError(...args) and it returned an error.
Returned == pc # "idle" /\ ret.kind = "return"

\* The last call was createError(c) or createError(c, m), m a string.
StatusAndMessage(c) ==
  /\ CreateErrorCalled
  /\ Len(args) \in {1, 2}
  /\ args[1] = PrimArg(Num(c))
  /\ Len(args) = 2 => args[2].kind = "prim" /\ args[2].prim.t = "string"

\* C1: for a registered code c in [400,599], createError(c) and
\* createError(c, m) return a new instance of the class registered under c
\* with status === statusCode === c, expose === (c < 500), and the message m
\* or, without m, the reason phrase of c.
C1_RegisteredStatus ==
  \A c \in StatusCodes \cap 400..599 :
    StatusAndMessage(c) =>
      /\ ret.kind = "return"
      /\ ret.src = 0
      /\ ret.obj.base = "HttpError"
      /\ ret.obj.klass.code = c
      /\ StrictEq(ret.obj.status, Num(c))
      /\ StrictEq(ret.obj.statusCode, Num(c))
      /\ ret.obj.expose = Bool(c < 500)
      /\ ret.obj.message =
           IF Len(args) = 2 THEN args[2].prim ELSE Str(StatusPhrase(c))

\* createError(500, "boom") has returned.
C1_Witness ==
  /\ StatusAndMessage(500)
  /\ Len(args) = 2
  /\ ret.kind = "return"
  /\ ret.obj.message = Str("boom")

\* The argument at place i (1-based) is of no supported role.
Offending(i) ==
  /\ args[i].kind = "prim"
  /\ args[i].prim.t \notin {"string", "object"}
  /\ ~(args[i].prim.t = "number" /\ i = 1)

\* C7: createError throws a TypeError naming the 1-based place and the type
\* of the first argument that is neither an Error, a string, another object
\* nor a number in first place, and returns no error then; with no such
\* argument it returns.
C7_UnsupportedArgument ==
  CreateErrorCalled =>
    IF \E i \in 1..Len(args) : Offending(i)
      THEN LET first == CHOOSE i \in 1..Len(args) :
                          Offending(i) /\ \A j \in 1..(i - 1) : ~Offending(j)
           IN  /\ ret.kind = "throw"
               /\ ret.pos = first
               /\ ret.type = args[first].prim.t
               /\ ret.obj = NoObject
      ELSE ret.kind = "return"

\* A number in second place, after a supported argument, was thrown on.
C7_Witness ==
  /\ CreateErrorCalled
  /\ Len(args) >= 2
  /\ ~Offending(1)
  /\ args[2].kind = "prim" /\ args[2].prim.t = "number"
  /\ ret.kind = "throw"
  /\ ret.pos = 2

\* Every argument of the last call is of a supported role.
AllSupported == \A i \in 1..Len(args) : ~Offending(i)

\* The status is a number below 400 or at least 600.
OutOfRange(status) ==
  IsNumber(status) /\ (Less(status, 400) \/ AtLeast(status, 600))

\* The number has a reason phrase in the registry.
Registered(status) ==
  IsNumber(status) /\ ~IsNaN(status) /\ status.n \in StatusCodes

\* The returned error has status === statusCode === status.
ReturnedStatus(status) ==
  /\ ret.kind = "return"
  /\ StrictEq(ret.obj.status, status)
  /\ StrictEq(ret.obj.statusCode, status)

\* C2 as claimed: with arguments of supported types createError does not
\* throw, and a working status that is not a number, or is any number
\* outside [400,599], gives status === statusCode === 500.
C2_Original ==
  CreateErrorCalled /\ AllSupported =>
    /\ ret.kind = "return"
    /\ ~IsNumber(ret.scanned) \/ OutOfRange(ret.scanned)
         => ReturnedStatus(Num(500))

\* C2, amended: with arguments of supported types createError does not
\* throw; a working status that is not a number, or is a number outside
\* [400,599] with no reason phrase, gives status === statusCode === 500; a
\* registered status outside [400,599] is kept.
C2_BadStatus ==
  CreateErrorCalled /\ AllSupported =>
    /\ ret.kind = "return"
    /\ ~IsNumber(ret.scanned)
         \/ (OutOfRange(ret.scanned) /\ ~Registered(ret.scanned))
         => ReturnedStatus(Num(500))
    /\ OutOfRange(ret.scanned) /\ Registered(ret.scanned)
         => ReturnedStatus(ret.scanned)

\* An error whose status is not a number was passed and came back with 500.
C2_Witness ==
  /\ CreateErrorCalled
  /\ AllSupported
  /\ ret.kind = "return"
  /\ ret.src # 0
  /\ ret.scanned.t = "string"
  /\ ReturnedStatus(Num(500))

\* The last call was createError(s), s a number without a reason phrase.
Unregistered(s) ==
  /\ CreateErrorCalled
  /\ Len(args) = 1
  /\ args[1] = PrimArg(s)
  /\ IsNumber(s)
  /\ ~Registered(s)

\* C9 as claimed: createError(s) for a number s without a reason phrase,
\* inside or outside [400,599], has status === statusCode === 500.  Stated
\* for the numbers that compare with 400 and 600; NaN is under C4.
C9_Original ==
  \A s \in FirstNumbers \ {NaN} : Unregistered(s) => ReturnedStatus(Num(500))

\* C9, amended: createError(s) for a number s without a reason phrase has
\* status === statusCode === 500 when s < 400 or s >= 600, and keeps
\* status === statusCode === s when 400 <= s < 600.
C9_Unregistered ==
  \A s \in FirstNumbers :
    Unregistered(s) =>
      /\ OutOfRange(s) => ReturnedStatus(Num(500))
      /\ AtLeast(s, 400) /\ Less(s, 600) => ReturnedStatus(s)

\* createError(499) has returned an error of the class of 400.
C9_Witness ==
  /\ Unregistered(Num(499))
  /\ ret.kind = "return"
  /\ ret.obj.klass.code = 400

\* The argument at place i is an Error carrying a status of its own.
CarriesStatus(i) ==
  /\ args[i].kind = "error"
  /\ Truthy(OrElse(args[i].obj.status, args[i].obj.statusCode))

\* The argument at place i is a number.
NumberAt(i) == args[i].kind = "prim" /\ args[i].prim.t = "number"

\* C10 as claimed: a number after an Error carrying a status overwrites the
\* working status, and the error returned has the number as its status.
C10_Original ==
  CreateErrorCalled /\ Len(args) = 2 /\ CarriesStatus(1) /\ NumberAt(2) =>
    /\ ret.kind = "return"
    /\ ret.scanned = args[2].prim

\* C10, amended: a number is the status only in first place, so a number
\* after an Error (after any argument) makes createError throw the
\* TypeError naming its place; the working status is the one the last Error
\* argument carries, whatever strings and bags follow it and whatever
\* number or Error precedes it.
C10_ScanOrder ==
  CreateErrorCalled =>
    /\ \A j \in 2..Len(args) :
         NumberAt(j) /\ (\A i \in 1..(j - 1) : ~Offending(i)) =>
           ret.kind = "throw" /\ ret.pos = j /\ ret.type = "number"
    /\ \A k \in 1..Len(args) :
         /\ ret.kind = "return"
         /\ CarriesStatus(k)
         /\ \A j \in (k + 1)..Len(args) : args[j].kind # "error"
         => ret.scanned = OrElse(args[k].obj.status, args[k].obj.statusCode)

\* A number after an Error carrying a status was thrown on.
C10_Witness ==
  /\ CreateErrorCalled
  /\ Len(args) = 2
  /\ CarriesStatus(1)
  /\ NumberAt(2)
  /\ ret.kind = "throw"

\* The argument at place i is an object that is no Error.
ObjectAt(i) == TypeOf(args[i]) = "object" /\ args[i].kind # "error"

\* The keys of bag p other than status and statusCode are on the result.
Copied(p) ==
  \A k \in DOMAIN p \ {"status", "statusCode"} : ret.obj[k] = p[k]

\* C3 as claimed: whatever property bag p the call has, the returned
\* error's status and statusCode are the resolved status, and every other
\* key of p is on the returned error.
C3_Original ==
  Returned =>
    \A i \in 1..Len(args) :
      args[i].kind = "bag" =>
        /\ ret.obj.status = ret.status
        /\ ret.obj.statusCode = ret.status
        /\ Copied(args[i].bag)

\* C3, amended: no property bag changes the status: the returned error's
\* status is the resolved status, and so is its statusCode, unless the
\* error passed in is an instance of a concrete class that has the resolved
\* status already, which keeps the statusCode it came with; and every key
\* other than status and statusCode of the bag in effect, the last object
\* argument that is no Error, is on the returned error.
C3_PropertyBag ==
  Returned =>
    /\ ret.obj.status = ret.status
    /\ \/ ret.obj.statusCode = ret.status
       \/ /\ ret.src # 0
          /\ args[ret.src].obj.base = "HttpError"
          /\ args[ret.src].obj.status = ret.status
          /\ ret.obj.statusCode = args[ret.src].obj.statusCode
    /\ \A i \in 1..Len(args) :
         ObjectAt(i) /\ (\A j \in (i + 1)..Len(args) : ~ObjectAt(j))
           => Copied(args[i].bag)

\* A plain Error and a bag with status 403 and code "X" were passed: the
\* code is on the result and the status is not 403.
C3_Witness ==
  /\ Returned
  /\ Len(args) = 2
  /\ args[1].kind = "error" /\ args[1].obj.base = "Error"
  /\ args[2].kind = "bag" /\ "status" \in DOMAIN args[2].bag
  /\ ret.obj.code = Str("X")
  /\ ret.obj.status # Num(403)

\* C4 as claimed: every error createError returns has
\* status === statusCode.
C4_StatusIsStatusCode ==
  /\ Returned => StrictEq(ret.obj.status, ret.obj.statusCode)
  /\ again.kind = "return" => StrictEq(again.obj.status, again.obj.statusCode)

\* C5 as claimed: isHttpError is true of every error createError returns.
C5_Recognized ==
  Returned => isHttpError(ErrorArg("result", ret.obj))

\* C6 as claimed: createError(e), e returned by createError, returns e
\* itself with the status, message and expose it had.
C6_Idempotent ==
  pc = "reapplied" =>
    /\ again.kind = "return"
    /\ again.src = 1
    /\ again.obj.status = ret.obj.status
    /\ again.obj.message = ret.obj.message
    /\ again.obj.expose = ret.obj.expose

\* The last call was isHttpError(val).
IsHttpErrorCalled == pc = "returned" /\ ret.kind = "bool"

\* The object has expose true and status and statusCode 404.
HasFields(val) ==
  /\ val.kind # "prim"
  /\ Get(val, "expose") = Bool(TRUE)
  /\ Get(val, "status") = Num(404)
  /\ Get(val, "statusCode") = Num(404)

\* val is null, undefined or a string.
NoObjectValue(val) ==
  val.kind = "prim" /\ (val.prim \in {Null, Undefined} \/ val.prim.t = "string")

\* C8 as claimed: isHttpError is true of any hand-built object with expose
\* true and status and statusCode 404, and false of null, undefined,
\* strings and plain objects without those fields.
C8_Original ==
  IsHttpErrorCalled =>
    /\ HasFields(args[1]) => ret.bool
    /\ NoObjectValue(args[1]) => ~ret.bool
    /\ args[1].kind = "bag" /\ ~HasFields(args[1]) => ~ret.bool

\* C8, amended: isHttpError is true of a hand-built Error with expose true
\* and status and statusCode 404, of whatever class, and false of null,
\* undefined, strings and every plain object, with those fields or without.
C8_HandBuilt ==
  IsHttpErrorCalled =>
    /\ args[1].kind = "error" /\ HasFields(args[1]) => ret.bool
    /\ NoObjectValue(args[1]) => ~ret.bool
    /\ args[1].kind = "bag" => ~ret.bool

\* A plain Error with the three fields was found to be an HTTP error.
C8_Witness ==
  /\ IsHttpErrorCalled
  /\ args[1].kind = "error"
  /\ args[1].obj.base = "Error"
  /\ HasFields(args[1])
  /\ ret.bool

=============================================================================
